---- MODULE Spec2Model ----
(***************************************************************************)
(* Horizon state sync validators of tari base_layer/core:                  *)
(*   - HeaderIter, the chunked header source (chain_balance.rs)            *)
(*   - ChainBalanceValidator (chain_balance.rs)                            *)
(*   - MmrRootsValidator (mmr_roots.rs)                                    *)
(*   - HorizonSyncValidators::full_consensus (validators.rs)               *)
(*   - StatelessValidationExt::chain (traits.rs)                           *)
(***************************************************************************)
EXTENDS Integers, Sequences, FiniteSets, TLC

\* ------------------------------------------------------------------------
\* Bounds of the model
\* ------------------------------------------------------------------------
\* Order of the scalar field / commitment group (a small stand-in).
GroupOrder == 251
\* Highest block height kept in the storage of the model.
MaxHeight == 52
\* HeaderIter driven on its own: heights 0..MaxIterHeight, chunk sizes
\* 0..MaxChunk.
MaxIterHeight == 3
MaxChunk == 5
\* Number of times next() is called again after it has returned None.
MaxNoneCalls == 2
\* Number of nodes in the UTXO MMR of the storage.
MaxNodes == 2
\* Largest response limit of a backend that cuts fetch_headers responses short.
MaxLimit == 2

\* ------------------------------------------------------------------------
\* Program constants
\* ------------------------------------------------------------------------
\* chunk_size handed to HeaderIter::new by fetch_total_offset_commitment
ChunkSize == 50

Min(a, b) == IF a < b THEN a ELSE b

\* ------------------------------------------------------------------------
\* State
\* ------------------------------------------------------------------------
VARIABLES
    db,         \* the storage behind BlockchainDatabase<B>
    rules,      \* ConsensusManager: emission schedule, constants, genesis
    iters,      \* HeaderIter instances driven directly by a caller
    yielded,    \* per HeaderIter: the Some(..) items next() has returned
    fetches,    \* per HeaderIter: the block_nums of each fetch_headers call
    nones,      \* per HeaderIter: how often next() has returned None
    inv,        \* per validate invocation: its position and its locals
    hiter,      \* per validate invocation: the HeaderIter it created
    perturbed,  \* a contributing commitment was changed after validate said Ok
    ch,         \* a chained validator over two stub validators
    mmr,        \* a call of MmrRootsValidator::check_utxo_mr: inputs and outcome
    before      \* the storage as it was before another process wrote to it

vars == <<db, rules, iters, yielded, fetches, nones, inv, hiter, perturbed, ch,
          mmr, before>>

IterIds == {1, 2}
Invocations == {1, 2}

\* ------------------------------------------------------------------------
\* Storage: fetch_headers
\* ------------------------------------------------------------------------
\* BlockHeader, reduced to the fields the validators read.
BlockHeader(d, n) == [height |-> n, total_kernel_offset |-> d.headers[n]]

StorageError(op, n) == [variant |-> "ChainStorageError", msg |-> <<op, n>>]

FirstMissing(d, block_nums) ==
    LET bad == {i \in 1..Len(block_nums) :
                    block_nums[i] \notin DOMAIN d.headers \/ block_nums[i] \in d.missing}
    IN  IF bad = {} THEN 0 ELSE CHOOSE i \in bad : \A k \in bad : i <= k

\* fetch_headers(block_nums): the header of every requested height, in the
\* order requested, or an error when one of them cannot be read. A backend
\* with a response limit returns Ok with the first d.limit of them only.
fetch_headers(d, block_nums) ==
    LET m == FirstMissing(d, block_nums)
    IN  IF m = 0
        THEN [tag |-> "Ok",
              headers |-> [i \in 1..Min(d.limit, Len(block_nums)) |->
                              BlockHeader(d, block_nums[i])]]
        ELSE [tag |-> "Err", err |-> StorageError("fetch_headers", block_nums[m])]

\* ------------------------------------------------------------------------
\* HeaderIter
\* ------------------------------------------------------------------------
HeaderIterNew(height, chunk_size) ==
    [chunk |-> <<>>, chunk_size |-> chunk_size, cursor |-> 0,
     is_error |-> FALSE, height |-> height]

next_chunkExclusive(it) ==
    LET upper_bound == Min(it.cursor + it.chunk_size, it.height)
    IN  [n \in 1..(upper_bound - it.cursor) |-> it.cursor + n - 1]

next_chunkNoMin(it) ==
    LET upper_bound == it.cursor + it.chunk_size
    IN  [n \in 1..(upper_bound - it.cursor + 1) |-> it.cursor + n - 1]

\* (self.cursor..=upper_bound).map(|n| n as u64).collect()
next_chunk(it) ==
    LET upper_bound == Min(it.cursor + it.chunk_size, it.height)
    IN  [n \in 1..(upper_bound - it.cursor + 1) |-> it.cursor + n - 1]

ItemNone == [tag |-> "None", val |-> <<>>]
ItemOk(header) == [tag |-> "Ok", val |-> header]
ItemErr(err) == [tag |-> "Err", val |-> err]
ItemPanic == [tag |-> "Panic", val |-> <<>>]

\* Some(Ok(self.chunk.remove(0))): Vec::remove panics on an empty Vec.
TakeFirst(it, fetch) ==
    IF it.chunk = <<>>
    THEN [iter |-> it, item |-> ItemPanic, fetch |-> fetch]
    ELSE [iter |-> [it EXCEPT !.chunk = Tail(@)],
          item |-> ItemOk(Head(it.chunk)), fetch |-> fetch]

OnFetchOkByChunkSize(it, headers) ==
    [it EXCEPT !.cursor = @ + it.chunk_size, !.chunk = @ \o headers]

\* Ok(headers) => { self.cursor += headers.len(); self.chunk.extend(headers); }
OnFetchOk(it, headers) ==
    [it EXCEPT !.cursor = @ + Len(headers), !.chunk = @ \o headers]

OnFetchErrNoFlag(it, err, fetch) ==
    [iter |-> it, item |-> ItemErr(err), fetch |-> fetch]

\* Err(err) => { self.is_error = true; return Some(Err(err)); }
OnFetchErr(it, err, fetch) ==
    [iter |-> [it EXCEPT !.is_error = TRUE], item |-> ItemErr(err), fetch |-> fetch]

OnExhaustedRewind(it) ==
    [iter |-> [it EXCEPT !.cursor = 0], item |-> ItemNone, fetch |-> <<>>]

\* if block_nums.is_empty() { return None; }
OnExhausted(it) ==
    [iter |-> it, item |-> ItemNone, fetch |-> <<>>]

\* HeaderIter::next: the iterator after the call, the item returned and the
\* fetch_headers calls issued (none or one).
HeaderIterNext(it, d) ==
    IF it.is_error
    THEN [iter |-> it, item |-> ItemNone, fetch |-> <<>>]
    ELSE IF it.chunk = <<>>
         THEN LET block_nums == next_chunk(it)
              IN  IF block_nums = <<>>
                  THEN OnExhausted(it)
                  ELSE LET r == fetch_headers(d, block_nums)
                       IN  IF r.tag = "Ok"
                           THEN TakeFirst(OnFetchOk(it, r.headers), <<block_nums>>)
                           ELSE OnFetchErr(it, r.err, <<block_nums>>)
         ELSE TakeFirst(it, <<>>)

\* ------------------------------------------------------------------------
\* Commitments: C = v*H + k*G, kept as the pair <<v, k>> of scalars
\* ------------------------------------------------------------------------
Identity == <<0, 0>>

\* &a + &b on Commitment
CommitAdd(a, b) == <<(a[1] + b[1]) % GroupOrder, (a[2] + b[2]) % GroupOrder>>

\* iter.sum() of commitments
RECURSIVE SumCommitments(_)
SumCommitments(cs) ==
    IF cs = <<>> THEN Identity ELSE CommitAdd(Head(cs), SumCommitments(Tail(cs)))

\* a + b on BlindingFactor
BlindingAdd(a, b) == (a + b) % GroupOrder

\* factories.commitment.commit(&k, &v)
commit(k, v) == <<v % GroupOrder, k % GroupOrder>>

\* self.factories.commitment.commit_value(&PrivateKey::default(), v.into())
commit_value(v) == commit(0, v)

\* ------------------------------------------------------------------------
\* Results
\* ------------------------------------------------------------------------
NoError == [variant |-> "None", msg |-> <<"", 0>>]
ROk == [tag |-> "Ok", err |-> NoError]
RErr(e) == [tag |-> "Err", err |-> e]
Pending == [tag |-> "Pending", err |-> NoError]

\* ValidationError::custom_error(err): the error rendered into CustomError
custom_error(e) == [variant |-> "CustomError", msg |-> e.msg]

BalanceMismatchNoHeight(height) ==
    [variant |-> "CustomError",
     msg |-> <<"Final state validation failed: The UTXO set did not balance with the expected emission at height", 0>>]

\* ValidationError::custom_error(format!("Final state validation failed: ... {}", height))
BalanceMismatch(height) ==
    [variant |-> "CustomError",
     msg |-> <<"Final state validation failed: The UTXO set did not balance with the expected emission at height", height>>]

\* ------------------------------------------------------------------------
\* Storage and consensus rules read by ChainBalanceValidator
\* ------------------------------------------------------------------------
fetch_all_kernels(d) ==
    IF d.kernelsOk THEN [tag |-> "Ok", val |-> d.kernels, err |-> NoError]
    ELSE [tag |-> "Err", val |-> <<>>, err |-> StorageError("fetch_all_kernels", 0)]

fetch_all_utxos(d) ==
    IF d.utxosOk THEN [tag |-> "Ok", val |-> d.utxos, err |-> NoError]
    ELSE [tag |-> "Err", val |-> <<>>, err |-> StorageError("fetch_all_utxos", 0)]

\* rules.emission_schedule().supply_at_block(height)
supply_at_block(r, height) == r.initial_supply + r.block_reward * height

\* rules.consensus_constants().get_genesis_coinbase_value_offset()
get_genesis_coinbase_value_offset(r) == r.coinbase_offset

Excesses(kernels) == [i \in 1..Len(kernels) |-> kernels[i].excess]
Commitments(outputs) == [i \in 1..Len(outputs) |-> outputs[i].commitment]
NotCoinbase(u) == ~u.coinbase

\* ------------------------------------------------------------------------
\* ChainBalanceValidator
\* ------------------------------------------------------------------------
get_emission_commitment_at(r, height) ==
    LET total_supply == supply_at_block(r, height) - get_genesis_coinbase_value_offset(r)
    IN  commit_value(total_supply)

get_aggregate_genesis_commitmentAll(r) ==
    SumCommitments(Commitments(r.genesis))

\* genesis outputs .filter(|u| !u.is_coinbase()).map(|u| &u.commitment).sum()
get_aggregate_genesis_commitment(r) ==
    SumCommitments(Commitments(SelectSeq(r.genesis, NotCoinbase)))

fetch_aggregate_kernel_excess(d) ==
    LET kernels == fetch_all_kernels(d)
    IN  IF kernels.tag = "Err"
        THEN [tag |-> "Err", val |-> Identity, err |-> custom_error(kernels.err)]
        ELSE [tag |-> "Ok", val |-> SumCommitments(Excesses(kernels.val)), err |-> NoError]

fetch_aggregate_utxo_commitment(d) ==
    LET utxos == fetch_all_utxos(d)
    IN  IF utxos.tag = "Err"
        THEN [tag |-> "Err", val |-> Identity, err |-> custom_error(utxos.err)]
        ELSE [tag |-> "Ok", val |-> SumCommitments(Commitments(utxos.val)), err |-> NoError]

BalanceInputNoOffset(emission_h, kernel_excess, genesis_input_commit, total_offset) ==
    CommitAdd(emission_h, CommitAdd(kernel_excess, genesis_input_commit))

\* agg_excess = kernel_excess + genesis_input_commit;
\* input = (emission_h + agg_excess) + total_offset
BalanceInput(emission_h, kernel_excess, genesis_input_commit, total_offset) ==
    LET agg_excess == CommitAdd(kernel_excess, genesis_input_commit)
    IN  CommitAdd(CommitAdd(emission_h, agg_excess), total_offset)

\* The locals of one validate(horizon_height) call on the final_state validator
\* (target "final_state") or on a MmrRootsValidator (target "mmr_roots").
NewInvocation(target, height) ==
    [target |-> target, pc |-> "idle", height |-> height,
     total_offset |-> 0, count |-> 0, offset_commitment |-> Identity,
     kernel_excess |-> Identity, reads |-> <<>>, compared |-> FALSE,
     cb |-> Pending, res |-> Pending, second_calls |-> 0]

NotInvoked == [NewInvocation("none", 0) EXCEPT !.pc = "off"]

HeaderReads(r) ==
    [k \in 1..Len(r.fetch) |-> [op |-> "fetch_headers", ok |-> r.item.tag # "Err"]]

total_offset_stepSkipErr(v, r) ==
    CASE r.item.tag = "Ok" ->
            [v EXCEPT !.total_offset = BlindingAdd(@, r.item.val.total_kernel_offset),
                      !.count = @ + 1,
                      !.reads = @ \o HeaderReads(r)]
      [] r.item.tag = "Err" ->
            [v EXCEPT !.reads = @ \o HeaderReads(r)]
      [] r.item.tag = "None" ->
            [v EXCEPT !.offset_commitment = commit(v.total_offset, 0),
                      !.pc = "kernels"]
      [] OTHER -> [v EXCEPT !.pc = "panicked"]

\* fetch_total_offset_commitment: one turn of `for header in header_iter`,
\* r being what header_iter.next() returned; the loop's end commits the sum.
total_offset_step(v, r) ==
    CASE r.item.tag = "Ok" ->
            [v EXCEPT !.total_offset = BlindingAdd(@, r.item.val.total_kernel_offset),
                      !.count = @ + 1,
                      !.reads = @ \o HeaderReads(r)]
      [] r.item.tag = "Err" ->
            [v EXCEPT !.cb = RErr(custom_error(r.item.val)),
                      !.pc = "chain",
                      !.reads = @ \o HeaderReads(r)]
      [] r.item.tag = "None" ->
            [v EXCEPT !.offset_commitment = commit(v.total_offset, 0),
                      !.pc = "kernels"]
      [] OTHER -> [v EXCEPT !.pc = "panicked"]

\* let kernel_excess = self.fetch_aggregate_kernel_excess()?;
kernel_step(v, d) ==
    LET k == fetch_aggregate_kernel_excess(d)
    IN  IF k.tag = "Err"
        THEN [v EXCEPT !.cb = RErr(k.err), !.pc = "chain",
                       !.reads = Append(@, [op |-> "fetch_all_kernels", ok |-> FALSE])]
        ELSE [v EXCEPT !.kernel_excess = k.val, !.pc = "utxos",
                       !.reads = Append(@, [op |-> "fetch_all_kernels", ok |-> TRUE])]

\* let output = self.fetch_aggregate_utxo_commitment()?; then the comparison
\* output != input and the value validate returns.
utxo_step(v, d, r) ==
    LET output == fetch_aggregate_utxo_commitment(d)
        input == BalanceInput(get_emission_commitment_at(r, v.height), v.kernel_excess,
                              get_aggregate_genesis_commitment(r), v.offset_commitment)
    IN  IF output.tag = "Err"
        THEN [v EXCEPT !.cb = RErr(output.err), !.pc = "chain",
                       !.reads = Append(@, [op |-> "fetch_all_utxos", ok |-> FALSE])]
        ELSE [v EXCEPT !.cb = IF output.val # input
                                THEN RErr(BalanceMismatch(v.height)) ELSE ROk,
                       !.compared = TRUE,
                       !.pc = "chain",
                       !.reads = Append(@, [op |-> "fetch_all_utxos", ok |-> TRUE])]

\* ------------------------------------------------------------------------
\* MmrRootsValidator
\* ------------------------------------------------------------------------
\* The body that is commented out in validate: fetch the tip header first.
MmrRootsValidateChecked(d, height) ==
    LET h == fetch_headers(d, <<height>>)
    IN  [res |-> IF h.tag = "Err" THEN RErr(custom_error(h.err)) ELSE ROk,
         reads |-> <<[op |-> "fetch_header", ok |-> h.tag = "Ok"]>>]

\* MmrRootsValidator::validate: Ok(()) and nothing else; reads are the
\* storage accesses it makes.
MmrRootsValidate(d, height) == [res |-> ROk, reads |-> <<>>]

\* ------------------------------------------------------------------------
\* MmrRootsValidator::check_utxo_mr
\* ------------------------------------------------------------------------
\* The MMR part of the storage m: its UTXO nodes (hash, is_stxo), the node
\* count at the tip height, and the storage call that fails, if any.
fetch_mmr_node_count(m, height) ==
    IF m.fail = "fetch_mmr_node_count"
    THEN [tag |-> "Err", val |-> 0, err |-> StorageError("fetch_mmr_node_count", height)]
    ELSE [tag |-> "Ok", val |-> m.count, err |-> NoError]

fetch_mmr_nodes(m, pos, count) ==
    IF m.fail = "fetch_mmr_nodes"
    THEN [tag |-> "Err", val |-> <<>>, err |-> StorageError("fetch_mmr_nodes", pos)]
    ELSE [tag |-> "Ok", val |-> SubSeq(m.nodes, pos + 1, Min(pos + count, Len(m.nodes))),
          err |-> NoError]

\* The root over the given additions and deletions, kept as the pair itself
\* (two roots are equal exactly when additions and deletions are).
calculate_mmr_root(m, additions, deletions) ==
    IF m.fail = "calculate_mmr_root"
    THEN [tag |-> "Err", val |-> <<>>, err |-> StorageError("calculate_mmr_root", 0)]
    ELSE [tag |-> "Ok", val |-> <<additions, deletions>>, err |-> NoError]

InvalidOutputMr == [variant |-> "InvalidOutputMr", msg |-> <<"", 0>>]

IsStxo(node) == node.is_stxo
IsUtxo(node) == ~node.is_stxo
Hashes(nodes) == [i \in 1..Len(nodes) |-> nodes[i].hash]

PartitionNodesSwapped(nodes) ==
    [additions |-> Hashes(SelectSeq(nodes, IsStxo)),
     deletions |-> Hashes(SelectSeq(nodes, IsUtxo))]

\* .partition(|(_, is_stxo)| !*is_stxo), then the hashes of either part
PartitionNodes(nodes) ==
    [additions |-> Hashes(SelectSeq(nodes, IsUtxo)),
     deletions |-> Hashes(SelectSeq(nodes, IsStxo))]

\* check_utxo_mr(tip_header): the result, the storage calls made in order
\* and whether tip_header.output_mr was compared.
check_utxo_mr(m, tip_header) ==
    LET node_count == fetch_mmr_node_count(m, tip_header.height)
    IN  IF node_count.tag = "Err"
        THEN [res |-> RErr(custom_error(node_count.err)),
              calls |-> <<"fetch_mmr_node_count">>, compared |-> FALSE]
        ELSE
        LET nodes == fetch_mmr_nodes(m, 0, node_count.val)
        IN  IF nodes.tag = "Err"
            THEN [res |-> RErr(custom_error(nodes.err)),
                  calls |-> <<"fetch_mmr_node_count", "fetch_mmr_nodes">>,
                  compared |-> FALSE]
            ELSE
            LET parts == PartitionNodes(nodes.val)
                output_mr == calculate_mmr_root(m, parts.additions, parts.deletions)
            IN  IF output_mr.tag = "Err"
                THEN [res |-> RErr(custom_error(output_mr.err)),
                      calls |-> <<"fetch_mmr_node_count", "fetch_mmr_nodes",
                                  "calculate_mmr_root">>,
                      compared |-> FALSE]
                ELSE [res |-> IF tip_header.output_mr # output_mr.val
                              THEN RErr(InvalidOutputMr) ELSE ROk,
                      calls |-> <<"fetch_mmr_node_count", "fetch_mmr_nodes",
                                  "calculate_mmr_root">>,
                      compared |-> TRUE]

\* ------------------------------------------------------------------------
\* ChainedValidator (validation/chained.rs), built by chain()
\* ------------------------------------------------------------------------
\* Whether the second validator runs, given the first one's result.
ChainedRunsSecond(first_res) == first_res.tag = "Ok"

\* The chained result, second_res being the second validator's result.
ChainedResult(first_res, second_res) ==
    IF ChainedRunsSecond(first_res) THEN second_res ELSE first_res

IterSlotShared(i) == 1

\* let header_iter = HeaderIter::new(..): a local of each invocation
IterSlot(i) == i

\* ------------------------------------------------------------------------
\* Inputs
\* ------------------------------------------------------------------------
Heights == 0..MaxHeight

\* total_kernel_offset of the stored headers: a few schedules over all heights
OffsetSchedules ==
    {[h \in Heights |-> (a * h + b) % GroupOrder] : a \in {0, 3}, b \in {0, 1}}

\* The response limit of a backend that returns every requested header.
NoLimit == MaxHeight + 1

Storage(offs, miss, kernels, kernelsOk, utxos, utxosOk) ==
    [headers |-> offs, missing |-> miss, limit |-> NoLimit,
     kernels |-> kernels, kernelsOk |-> kernelsOk,
     utxos |-> utxos, utxosOk |-> utxosOk]

\* The genesis block of the scenario: a coinbase output of value 100 and a
\* non-coinbase output of value 50.
CoinbaseOutput == [commitment |-> commit(7, 100), coinbase |-> TRUE]
PlainOutput == [commitment |-> commit(11, 50), coinbase |-> FALSE]

GenesisChoices == {<<>>, <<CoinbaseOutput, PlainOutput>>}

RulesChoices ==
    {[initial_supply |-> 100, coinbase_offset |-> o, block_reward |-> 10, genesis |-> g] :
        o \in {0, 100}, g \in GenesisChoices}

NoRules == [initial_supply |-> 0, coinbase_offset |-> 0, block_reward |-> 0, genesis |-> <<>>]

KernelChoices ==
    {<<>>, <<[excess |-> commit(5, 0)], [excess |-> commit(GroupOrder - 2, 0)]>>}

\* Heights validate is called with: below, at and past the first chunk.
BalHeights == {0, ChunkSize, ChunkSize + 1, MaxHeight}

BalOffsetSchedules ==
    {[h \in Heights |-> (a * h + a) % GroupOrder] : a \in {0, 3}}

MissingChoices == {{}, {0}, {ChunkSize + 1}}

\* The sum of total_kernel_offset over the stored headers 0..=height.
RECURSIVE OffsetSum(_, _)
OffsetSum(d, height) ==
    IF height < 0 THEN 0
    ELSE (d.headers[height] + OffsetSum(d, height - 1)) % GroupOrder

\* What the UTXO set has to hold besides the unspent non-coinbase genesis
\* outputs for the chain to balance at height.
Mined(d, r, height) ==
    CommitAdd(get_emission_commitment_at(r, height),
              CommitAdd(SumCommitments(Excesses(d.kernels)),
                        commit(OffsetSum(d, height), 0)))

Deltas == {Identity, <<1, 0>>, <<0, GroupOrder - 1>>}

\* UTXO sets: the non-coinbase genesis outputs, with or without the genesis
\* coinbase outputs, with or without one more output that holds the mined
\* value exactly or off by a delta.
UtxoChoices(d, r, height) ==
    LET unspent(withCoinbase) ==
            IF withCoinbase THEN SelectSeq(r.genesis, NotCoinbase) \o
                                 SelectSeq(r.genesis, LAMBDA u : u.coinbase)
            ELSE SelectSeq(r.genesis, NotCoinbase)
        more == {<<>>} \cup
                {<<[commitment |-> CommitAdd(Mined(d, r, height), dl), coinbase |-> FALSE]>> :
                    dl \in Deltas}
    IN  {unspent(wc) \o m : wc \in BOOLEAN, m \in more}

NoStorage == Storage([h \in Heights |-> 0], {}, <<>>, TRUE, <<>>, TRUE)

IterUnused ==
    /\ iters = [j \in IterIds |-> HeaderIterNew(0, 0)]
    /\ yielded = [j \in IterIds |-> <<>>]
    /\ fetches = [j \in IterIds |-> <<>>]
    /\ nones = [j \in IterIds |-> 0]

ValidatorUnused ==
    /\ inv = [i \in Invocations |-> NotInvoked]
    /\ hiter = [i \in Invocations |-> HeaderIterNew(0, ChunkSize)]
    /\ perturbed = FALSE

NoChain == [pc |-> "off"]

NoMmr == [pc |-> "off"]
MmrUnused == mmr = NoMmr

NoWrite == [written |-> FALSE, db |-> NoStorage]
WriterUnused == before = NoWrite

\* ------------------------------------------------------------------------
\* HeaderIter driven directly (the type and new() are public)
\* ------------------------------------------------------------------------
InitIter ==
    /\ \E offs \in OffsetSchedules, miss \in SUBSET (0..MaxIterHeight) :
          /\ Cardinality(miss) <= 1
          /\ db = Storage(offs, miss, <<>>, TRUE, <<>>, TRUE)
    /\ rules = NoRules
    /\ \E h \in 0..MaxIterHeight, cs \in [IterIds -> 0..MaxChunk] :
          iters = [j \in IterIds |-> HeaderIterNew(h, cs[j])]
    /\ yielded = [j \in IterIds |-> <<>>]
    /\ fetches = [j \in IterIds |-> <<>>]
    /\ nones = [j \in IterIds |-> 0]
    /\ ValidatorUnused
    /\ ch = NoChain
    /\ MmrUnused
    /\ WriterUnused

\* A call of next() on iterator j has panicked and unwound its caller.
Panicked(j) == \E k \in 1..Len(yielded[j]) : yielded[j][k].tag = "Panic"

\* One call of next() on iterator j by its caller.
IterNext(j) ==
    /\ nones[j] < MaxNoneCalls
    /\ Len(yielded[j]) <= MaxIterHeight + 2
    /\ ~Panicked(j)
    /\ LET r == HeaderIterNext(iters[j], db)
       IN  /\ iters' = [iters EXCEPT ![j] = r.iter]
           /\ yielded' = [yielded EXCEPT ![j] =
                            IF r.item.tag = "None" THEN @ ELSE Append(@, r.item)]
           /\ fetches' = [fetches EXCEPT ![j] = @ \o r.fetch]
           /\ nones' = [nones EXCEPT ![j] = IF r.item.tag = "None" THEN @ + 1 ELSE @]
    /\ UNCHANGED <<mmr, before, db, rules, inv, hiter, perturbed, ch>>

NextIter == \E j \in IterIds : IterNext(j)

SpecIter == InitIter /\ [][NextIter]_vars

\* for header in iter { .. }: the caller's loop keeps calling next() until it
\* returns None.
InitIterFair ==
    /\ \E offs \in OffsetSchedules, miss \in SUBSET (0..MaxIterHeight) :
          /\ Cardinality(miss) <= 1
          /\ db = Storage(offs, miss, <<>>, TRUE, <<>>, TRUE)
    /\ rules = NoRules
    /\ \E h \in 0..MaxIterHeight, cs \in 0..MaxChunk :
          iters = [j \in IterIds |-> IF j = 1 THEN HeaderIterNew(h, cs)
                                              ELSE HeaderIterNew(0, 1)]
    /\ yielded = [j \in IterIds |-> <<>>]
    /\ fetches = [j \in IterIds |-> <<>>]
    /\ nones = [j \in IterIds |-> 0]
    /\ ValidatorUnused
    /\ ch = NoChain
    /\ MmrUnused
    /\ WriterUnused

SpecIterFair ==
    /\ InitIterFair
    /\ [][NextIter]_vars
    /\ \A j \in IterIds : WF_vars(IterNext(j))

\* ------------------------------------------------------------------------
\* HeaderIter over a backend whose fetch_headers responses are cut short
\* ------------------------------------------------------------------------
InitShort ==
    /\ \E offs \in OffsetSchedules, limit \in 0..MaxLimit :
          db = [Storage(offs, {}, <<>>, TRUE, <<>>, TRUE) EXCEPT !.limit = limit]
    /\ rules = NoRules
    /\ \E h \in 0..MaxIterHeight, cs \in 0..MaxChunk :
          iters = [j \in IterIds |-> IF j = 1 THEN HeaderIterNew(h, cs)
                                              ELSE HeaderIterNew(h, 1)]
    /\ yielded = [j \in IterIds |-> <<>>]
    /\ fetches = [j \in IterIds |-> <<>>]
    /\ nones = [j \in IterIds |-> 0]
    /\ ValidatorUnused
    /\ ch = NoChain
    /\ MmrUnused
    /\ WriterUnused

SpecShort == InitShort /\ [][NextIter]_vars

\* ------------------------------------------------------------------------
\* validate(horizon_height) on the final_state validator of full_consensus
\* ------------------------------------------------------------------------
Init ==
    /\ \E height \in BalHeights, offs \in BalOffsetSchedules, miss \in MissingChoices,
          kernelsOk \in BOOLEAN, utxosOk \in BOOLEAN,
          kernels \in KernelChoices, r \in RulesChoices :
          \E utxos \in UtxoChoices(Storage(offs, miss, kernels, kernelsOk, <<>>, utxosOk),
                                   r, height) :
             /\ db = Storage(offs, miss, kernels, kernelsOk, utxos, utxosOk)
             /\ rules = r
             /\ inv = [i \in Invocations |->
                          IF i = 1 THEN NewInvocation("none", height) ELSE NotInvoked]
    /\ hiter = [i \in Invocations |-> HeaderIterNew(0, ChunkSize)]
    /\ perturbed = FALSE
    /\ IterUnused
    /\ ch = NoChain
    /\ MmrUnused
    /\ WriterUnused

\* final_state.validate(&height) is called: the chained validator calls
\* ChainBalanceValidator::validate, which creates its HeaderIter.
Begin(i) ==
    /\ inv[i].pc = "idle"
    /\ inv' = [inv EXCEPT ![i] = [@ EXCEPT !.target = "final_state", !.pc = "headers"]]
    /\ hiter' = [hiter EXCEPT ![IterSlot(i)] = HeaderIterNew(inv[i].height, ChunkSize)]
    /\ UNCHANGED <<mmr, before, db, rules, iters, yielded, fetches, nones, perturbed, ch>>

\* One turn of the header loop of fetch_total_offset_commitment.
HeaderStep(i) ==
    /\ inv[i].pc = "headers"
    /\ LET r == HeaderIterNext(hiter[IterSlot(i)], db)
       IN  /\ hiter' = [hiter EXCEPT ![IterSlot(i)] = r.iter]
           /\ inv' = [inv EXCEPT ![i] = total_offset_step(@, r)]
    /\ UNCHANGED <<mmr, before, db, rules, iters, yielded, fetches, nones, perturbed, ch>>

KernelStep(i) ==
    /\ inv[i].pc = "kernels"
    /\ inv' = [inv EXCEPT ![i] = kernel_step(@, db)]
    /\ UNCHANGED <<mmr, before, db, rules, iters, yielded, fetches, nones, hiter, perturbed, ch>>

UtxoStep(i) ==
    /\ inv[i].pc = "utxos"
    /\ inv' = [inv EXCEPT ![i] = utxo_step(@, db, rules)]
    /\ UNCHANGED <<mmr, before, db, rules, iters, yielded, fetches, nones, hiter, perturbed, ch>>

\* full_consensus: ChainBalanceValidator .chain( MmrRootsValidator ).
\* ChainBalanceValidator has returned cb; the chained validator goes on.
full_consensus_secondOnly(v, d) ==
    LET m == MmrRootsValidate(d, v.height)
    IN  [v EXCEPT !.res = m.res, !.reads = @ \o m.reads, !.second_calls = @ + 1,
                  !.pc = "done"]

\* full_consensus: ChainBalanceValidator .chain( MmrRootsValidator ).
\* ChainBalanceValidator has returned cb; the chained validator goes on.
full_consensus_second(v, d) ==
    LET m == MmrRootsValidate(d, v.height)
    IN  IF ChainedRunsSecond(v.cb)
        THEN [v EXCEPT !.res = ChainedResult(v.cb, m.res),
                       !.reads = @ \o m.reads,
                       !.second_calls = @ + 1,
                       !.pc = "done"]
        ELSE [v EXCEPT !.res = ChainedResult(v.cb, Pending), !.pc = "done"]

ChainStep(i) ==
    /\ inv[i].pc = "chain"
    /\ inv' = [inv EXCEPT ![i] = full_consensus_second(@, db)]
    /\ UNCHANGED <<mmr, before, db, rules, iters, yielded, fetches, nones, hiter, perturbed, ch>>

\* MmrRootsValidator::validate(&height) called on its own.
MmrRootsCall(i) ==
    /\ inv[i].pc = "idle"
    /\ LET m == MmrRootsValidate(db, inv[i].height)
       IN  inv' = [inv EXCEPT ![i] = [@ EXCEPT !.target = "mmr_roots", !.res = m.res,
                                                !.reads = @ \o m.reads, !.pc = "done"]]
    /\ UNCHANGED <<mmr, before, db, rules, iters, yielded, fetches, nones, hiter, perturbed, ch>>

PerturbDeltas == {<<1, 0>>, <<0, GroupOrder - 1>>}

\* After validate has returned Ok, one contributing commitment of the state
\* is changed by a nonzero amount and validate is called again.
Perturb ==
    /\ inv[1].pc = "done" /\ inv[1].target = "final_state"
    /\ inv[1].cb = ROk
    /\ ~perturbed
    /\ perturbed' = TRUE
    /\ inv' = [inv EXCEPT ![1] = NewInvocation("none", inv[1].height)]
    /\ \/ \E u \in 1..Len(db.utxos), dl \in PerturbDeltas :
             /\ db' = [db EXCEPT !.utxos[u].commitment = CommitAdd(@, dl)]
             /\ rules' = rules
       \/ \E k \in 1..Len(db.kernels), dl \in PerturbDeltas :
             /\ db' = [db EXCEPT !.kernels[k].excess = CommitAdd(@, dl)]
             /\ rules' = rules
       \/ \E n \in {0, inv[1].height}, s \in {1, GroupOrder - 1} :
             /\ db' = [db EXCEPT !.headers[n] = (@ + s) % GroupOrder]
             /\ rules' = rules
       \/ \E g \in 1..Len(rules.genesis), dl \in PerturbDeltas :
             /\ ~rules.genesis[g].coinbase
             /\ rules' = [rules EXCEPT !.genesis[g].commitment = CommitAdd(@, dl)]
             /\ db' = db
       \/ /\ rules' = [rules EXCEPT !.initial_supply = @ + 1]
          /\ db' = db
    /\ UNCHANGED <<mmr, before, iters, yielded, fetches, nones, hiter, ch>>

Next ==
    \/ \E i \in Invocations :
          \/ Begin(i)
          \/ HeaderStep(i)
          \/ KernelStep(i)
          \/ UtxoStep(i)
          \/ ChainStep(i)
          \/ MmrRootsCall(i)
    \/ Perturb

Spec == Init /\ [][Next]_vars

\* ------------------------------------------------------------------------
\* Two validate calls on the same validator, interleaved, storage unchanged
\* ------------------------------------------------------------------------
ConcHeights == {1, ChunkSize + 1}

InitConc ==
    /\ \E h \in [Invocations -> ConcHeights], miss \in MissingChoices,
          kernelsOk \in BOOLEAN, dl \in {Identity, <<1, 0>>} :
          LET r == [initial_supply |-> 100, coinbase_offset |-> 0, block_reward |-> 10,
                    genesis |-> <<CoinbaseOutput, PlainOutput>>]
              offs == [n \in Heights |-> (3 * n + 3) % GroupOrder]
              d == Storage(offs, miss, <<[excess |-> commit(5, 0)]>>, kernelsOk, <<>>, TRUE)
              utxos == <<PlainOutput,
                         [commitment |-> CommitAdd(Mined(d, r, h[1]), dl), coinbase |-> FALSE]>>
          IN  /\ db = [d EXCEPT !.utxos = utxos]
              /\ rules = r
              /\ inv = [i \in Invocations |-> NewInvocation("none", h[i])]
    /\ hiter = [i \in Invocations |-> HeaderIterNew(0, ChunkSize)]
    /\ perturbed = FALSE
    /\ IterUnused
    /\ ch = NoChain
    /\ MmrUnused
    /\ WriterUnused

NextConc ==
    \E i \in Invocations :
        \/ Begin(i)
        \/ HeaderStep(i)
        \/ KernelStep(i)
        \/ UtxoStep(i)
        \/ ChainStep(i)

SpecConc == InitConc /\ [][NextConc]_vars

\* ------------------------------------------------------------------------
\* chain() over two arbitrary validators of the same item type
\* ------------------------------------------------------------------------
Items == {0, 1}

StubError(name, n) == [variant |-> "CustomError", msg |-> <<name, n>>]

\* A validator whose validate(item) returns results[item].
StubValidators(name) ==
    {[name |-> name, results |-> f] :
        f \in [Items -> {ROk, RErr(StubError(name, 1)), RErr(StubError(name, 2))}]}

chainSwapped(self, other) == [first |-> other, second |-> self]

\* fn chain(self, other) -> ChainedValidator<Self, V> { ChainedValidator::new(self, other) }
chain(self, other) == [first |-> self, second |-> other]

InitChain ==
    /\ \E a \in StubValidators("A"), b \in StubValidators("B"), x \in Items :
          ch = [pc |-> "first", item |-> x, a |-> a, b |-> b, chained |-> chain(a, b),
                calls |-> [A |-> 0, B |-> 0], first_res |-> Pending, res |-> Pending]
    /\ db = NoStorage
    /\ rules = NoRules
    /\ IterUnused
    /\ ValidatorUnused
    /\ MmrUnused
    /\ WriterUnused

\* ChainedValidator::validate: the first validator runs on the item.
ChainFirst ==
    /\ ch.pc = "first"
    /\ ch' = [ch EXCEPT !.first_res = ch.chained.first.results[ch.item],
                        !.calls[ch.chained.first.name] = @ + 1,
                        !.pc = "second"]
    /\ UNCHANGED <<mmr, before, db, rules, iters, yielded, fetches, nones, inv, hiter, perturbed>>

\* ChainedValidator::validate: the first validator has returned.
ChainSecond ==
    /\ ch.pc = "second"
    /\ ch' = IF ChainedRunsSecond(ch.first_res)
             THEN [ch EXCEPT !.res = ChainedResult(ch.first_res,
                                                   ch.chained.second.results[ch.item]),
                             !.calls[ch.chained.second.name] = @ + 1,
                             !.pc = "done"]
             ELSE [ch EXCEPT !.res = ChainedResult(ch.first_res, Pending), !.pc = "done"]
    /\ UNCHANGED <<mmr, before, db, rules, iters, yielded, fetches, nones, inv, hiter, perturbed>>

NextChain == ChainFirst \/ ChainSecond

SpecChain == InitChain /\ [][NextChain]_vars

\* ------------------------------------------------------------------------
\* validate while another process writes to the storage
\* ------------------------------------------------------------------------
WriteHeights == {0, ChunkSize + 1}

InitWrite ==
    /\ \E height \in WriteHeights, kernels \in KernelChoices, dl \in Deltas :
          LET r == [initial_supply |-> 100, coinbase_offset |-> 0, block_reward |-> 10,
                    genesis |-> <<CoinbaseOutput, PlainOutput>>]
              offs == [n \in Heights |-> (3 * n + 3) % GroupOrder]
              d == Storage(offs, {}, kernels, TRUE, <<>>, TRUE)
              utxos == <<PlainOutput,
                         [commitment |-> CommitAdd(Mined(d, r, height), dl), coinbase |-> FALSE]>>
          IN  /\ db = [d EXCEPT !.utxos = utxos]
              /\ rules = r
              /\ inv = [i \in Invocations |->
                           IF i = 1 THEN NewInvocation("none", height) ELSE NotInvoked]
    /\ hiter = [i \in Invocations |-> HeaderIterNew(0, ChunkSize)]
    /\ perturbed = FALSE
    /\ IterUnused
    /\ ch = NoChain
    /\ MmrUnused
    /\ before = NoWrite

\* A transaction written by another process while validate runs: one more
\* kernel and one more unspent output whose commitment equals the kernel
\* excess, which leaves the balance equation as it was.
StorageWrite ==
    /\ inv[1].pc \in {"headers", "kernels", "utxos"}
    /\ ~before.written
    /\ before' = [written |-> TRUE, db |-> db]
    /\ db' = [db EXCEPT !.kernels = Append(@, [excess |-> commit(9, 0)]),
                        !.utxos = Append(@, [commitment |-> commit(9, 0),
                                             coinbase |-> FALSE])]
    /\ UNCHANGED <<mmr, rules, iters, yielded, fetches, nones, inv, hiter, perturbed, ch>>

NextWrite ==
    \/ \E i \in Invocations :
          \/ Begin(i)
          \/ HeaderStep(i)
          \/ KernelStep(i)
          \/ UtxoStep(i)
          \/ ChainStep(i)
    \/ StorageWrite

SpecWrite == InitWrite /\ [][NextWrite]_vars

\* ------------------------------------------------------------------------
\* check_utxo_mr applied to a tip header over an MMR storage
\* ------------------------------------------------------------------------
NodeHashes == {1, 2}

MmrNodes == {[hash |-> h, is_stxo |-> b] : h \in NodeHashes, b \in BOOLEAN}

RECURSIVE SeqsUpTo(_, _)
SeqsUpTo(S, n) ==
    IF n = 0 THEN {<<>>}
    ELSE LET shorter == SeqsUpTo(S, n - 1)
         IN  shorter \cup {Append(q, x) : q \in shorter, x \in S}

MmrFailures ==
    {"none", "fetch_mmr_node_count", "fetch_mmr_nodes", "calculate_mmr_root"}

\* Declared roots: the one the stored nodes give, the one with additions and
\* deletions exchanged, and the root of the empty tree.
OutputMrChoices(nodes, count) ==
    LET ns == SubSeq(nodes, 1, count)
    IN  {<<Hashes(SelectSeq(ns, IsUtxo)), Hashes(SelectSeq(ns, IsStxo))>>,
         <<Hashes(SelectSeq(ns, IsStxo)), Hashes(SelectSeq(ns, IsUtxo))>>,
         <<<<>>, <<>>>>}

InitMmr ==
    /\ \E nodes \in SeqsUpTo(MmrNodes, MaxNodes), f \in MmrFailures :
          \E count \in 0..Len(nodes) :
             \E mr \in OutputMrChoices(nodes, count) :
                mmr = [pc |-> "ready",
                       store |-> [nodes |-> nodes, count |-> count, fail |-> f],
                       header |-> [height |-> 0, output_mr |-> mr],
                       out |-> [res |-> Pending, calls |-> <<>>, compared |-> FALSE]]
    /\ db = NoStorage
    /\ rules = NoRules
    /\ IterUnused
    /\ ValidatorUnused
    /\ ch = NoChain
    /\ WriterUnused

CheckUtxoMr ==
    /\ mmr.pc = "ready"
    /\ mmr' = [mmr EXCEPT !.pc = "done", !.out = check_utxo_mr(mmr.store, mmr.header)]
    /\ UNCHANGED <<db, rules, iters, yielded, fetches, nones, inv, hiter, perturbed, ch,
                   before>>

NextMmr == CheckUtxoMr

SpecMmr == InitMmr /\ [][NextMmr]_vars

\* ------------------------------------------------------------------------
\* Properties of HeaderIter (SpecIter)
\* ------------------------------------------------------------------------
IsPrefix(s, t) == Len(s) <= Len(t) /\ SubSeq(t, 1, Len(s)) = s

RECURSIVE Flatten(_)
Flatten(ss) == IF ss = <<>> THEN <<>> ELSE Head(ss) \o Flatten(Tail(ss))

\* The headers of heights 0, 1, ..., h as items, in ascending order.
HeadersUpTo(d, h) == [n \in 1..(h + 1) |-> ItemOk(BlockHeader(d, n - 1))]

\* The backend returns the requested headers for every height up to h.
ErrorFree(d, h) == d.missing \cap (0..h) = {}

\* C2: with a backend that returns exactly the requested headers, what a
\* HeaderIter has yielded is always an initial part of the headers of heights
\* 0, 1, ..., H in ascending order, and once next() has returned None it is
\* all of them: H + 1 items, each height once, no gap and no duplicate, for
\* every chunk size.
C2_EnumeratesAllHeightsOnce ==
    \A j \in IterIds :
        ErrorFree(db, iters[j].height) =>
            /\ IsPrefix(yielded[j], HeadersUpTo(db, iters[j].height))
            /\ nones[j] >= 1 =>
                  /\ yielded[j] = HeadersUpTo(db, iters[j].height)
                  /\ Len(yielded[j]) = iters[j].height + 1

\* A full pass over heights 0..MaxIterHeight that needed several chunks.
C2_Witness ==
    \E j \in IterIds :
        /\ ErrorFree(db, iters[j].height)
        /\ iters[j].height = MaxIterHeight
        /\ iters[j].chunk_size = 1
        /\ Len(fetches[j]) >= 2
        /\ nones[j] >= 1
        /\ Len(yielded[j]) = MaxIterHeight + 1

ChunkSizeInRange(j) ==
    iters[j].chunk_size >= 1 /\ iters[j].chunk_size <= iters[j].height + 1

\* C3: two HeaderIter instances over the same height and the same error-free
\* backend, with any two chunk sizes in [1, H+1], have yielded identical
\* sequences of headers once both have returned None.
C3_ChunkSizeDoesNotChangeSequence ==
    ( /\ ErrorFree(db, iters[1].height)
      /\ ChunkSizeInRange(1) /\ ChunkSizeInRange(2)
      /\ nones[1] >= 1 /\ nones[2] >= 1 )
    => yielded[1] = yielded[2]

\* Both iterators finished with different chunk sizes and a different
\* grouping of the heights into fetch_headers calls.
C3_Witness ==
    /\ ErrorFree(db, iters[1].height)
    /\ ChunkSizeInRange(1) /\ ChunkSizeInRange(2)
    /\ iters[1].chunk_size # iters[2].chunk_size
    /\ nones[1] >= 1 /\ nones[2] >= 1
    /\ Len(fetches[1]) # Len(fetches[2])
    /\ Len(yielded[1]) = MaxIterHeight + 1
    /\ yielded[1] = yielded[2]

\* C4: when a fetch_headers call of a HeaderIter has failed, that call is the
\* last one in its fetch log (no retry, no later fetch), every earlier call
\* succeeded, and the items yielded are the headers of the earlier chunks in
\* order followed by exactly one Err item carrying that failure; calls of
\* next() made afterwards add nothing (they return None).
C4_StickyError ==
    \A j \in IterIds :
        \A p \in 1..Len(yielded[j]) :
            yielded[j][p].tag = "Err" =>
                LET N == Len(fetches[j])
                IN  /\ p = Len(yielded[j])
                    /\ N >= 1
                    /\ fetch_headers(db, fetches[j][N]).tag = "Err"
                    /\ yielded[j][p] = ItemErr(fetch_headers(db, fetches[j][N]).err)
                    /\ \A k \in 1..(N - 1) : fetch_headers(db, fetches[j][k]).tag = "Ok"
                    /\ SubSeq(yielded[j], 1, p - 1) =
                          Flatten([k \in 1..(N - 1) |->
                                      [i \in 1..Len(fetches[j][k]) |->
                                          ItemOk(BlockHeader(db, fetches[j][k][i]))]])
                    /\ iters[j].is_error

\* The second fetch failed, next() was called MaxNoneCalls more times, and
\* heights remain unfetched.
C4_Witness ==
    \E j \in IterIds :
        /\ Len(fetches[j]) = 2
        /\ Len(yielded[j]) >= 2
        /\ yielded[j][Len(yielded[j])].tag = "Err"
        /\ nones[j] = MaxNoneCalls
        /\ iters[j].cursor <= iters[j].height

\* ------------------------------------------------------------------------
\* Properties of the validators
\* ------------------------------------------------------------------------
\* ChainBalanceValidator::validate has returned in invocation i.
Returned(i) == inv[i].target = "final_state" /\ inv[i].pc \in {"chain", "done"}

\* Every storage fetch of validate(height) succeeds.
ReadsSucceed(d, height) == d.missing \cap (0..height) = {} /\ d.kernelsOk /\ d.utxosOk

\* sum UTXO = emission(height) + sum non-coinbase genesis + sum kernel excess
\*            + Commit(sum of total_kernel_offset of headers 0..=height, 0)
BalanceEquation(d, r, height) ==
    SumCommitments(Commitments(d.utxos)) =
        CommitAdd(get_emission_commitment_at(r, height),
          CommitAdd(SumCommitments(Commitments(SelectSeq(r.genesis, NotCoinbase))),
            CommitAdd(SumCommitments(Excesses(d.kernels)),
                      commit(OffsetSum(d, height), 0))))

\* C1: when every storage fetch succeeds, ChainBalanceValidator.validate(height)
\* returns Ok exactly when the balance equation holds, and after a single
\* contributing commitment of a state that validated Ok has been changed by a
\* nonzero amount it returns an error.
C1_OkIffBalanced ==
    \A i \in Invocations :
        (Returned(i) /\ ReadsSucceed(db, inv[i].height)) =>
            /\ inv[i].cb = ROk <=> BalanceEquation(db, rules, inv[i].height)
            /\ inv[i].cb # ROk => inv[i].cb.tag = "Err"
            /\ perturbed => inv[i].cb.tag = "Err"

\* A state that validated Ok over more than one header chunk was perturbed
\* and validate then reported the mismatch.
C1_Witness ==
    /\ perturbed
    /\ Returned(1)
    /\ inv[1].height = MaxHeight
    /\ Len(inv[1].reads) >= 4
    /\ ReadsSucceed(db, inv[1].height)
    /\ inv[1].cb.tag = "Err"

OpRank(op) ==
    CASE op = "fetch_headers" -> 1
      [] op = "fetch_all_kernels" -> 2
      [] op = "fetch_all_utxos" -> 3
      [] OTHER -> 4

\* C6: validate reads header chunks, then all kernels, then all UTXOs (the
\* latter two once each). A failed read is the last read of the invocation
\* (no later read, no retry), validate has then returned the error of that
\* read without comparing, and the final result is not Ok. The comparison is
\* only made after all height + 1 headers were summed and all reads succeeded.
C6_ReadOrderAndFailFast ==
    \A i \in Invocations :
        inv[i].target = "final_state" =>
            LET v == inv[i]
                R == v.reads
            IN  /\ \A a, b \in 1..Len(R) :
                      a < b => /\ OpRank(R[a].op) <= OpRank(R[b].op)
                               /\ R[a].op = R[b].op => R[a].op = "fetch_headers"
                /\ \A a \in 1..Len(R) : OpRank(R[a].op) <= 3
                /\ \A a \in 1..Len(R) :
                      ~R[a].ok =>
                          /\ a = Len(R)
                          /\ v.pc \in {"chain", "done"}
                          /\ v.cb.tag = "Err"
                          /\ v.cb.err.msg[1] = R[a].op
                          /\ ~v.compared
                          /\ v.pc = "done" => v.res = v.cb
                /\ \A a \in 1..Len(R) :
                      R[a].op # "fetch_headers" => v.count = v.height + 1
                /\ v.compared =>
                      /\ v.count = v.height + 1
                      /\ \A a \in 1..Len(R) : R[a].ok
                      /\ \E a \in 1..Len(R) : R[a].op = "fetch_all_kernels"
                      /\ \E a \in 1..Len(R) : R[a].op = "fetch_all_utxos"
                /\ (Returned(i) /\ ~v.compared) => v.cb.tag = "Err"

\* Both header chunks were read, the kernel read failed, and validate
\* returned with UTXOs still unread (their read would have failed too).
C6_Witness ==
    \E i \in Invocations :
        /\ inv[i].pc = "done" /\ inv[i].target = "final_state"
        /\ Len(inv[i].reads) = 3
        /\ inv[i].reads[3] = [op |-> "fetch_all_kernels", ok |-> FALSE]
        /\ ~db.utxosOk
        /\ inv[i].res.tag = "Err"

\* C7: MmrRootsValidator.validate(height) returns Ok and reads nothing from
\* storage, whatever the height and the storage state; when it runs as the
\* second stage of final_state it adds no read either.
C7_MmrRootsAlwaysOk ==
    \A i \in Invocations :
        /\ (inv[i].target = "mmr_roots" /\ inv[i].pc = "done") =>
              inv[i].res = ROk /\ inv[i].reads = <<>>
        /\ \A a \in 1..Len(inv[i].reads) : inv[i].reads[a].op # "fetch_header"

\* MmrRootsValidator.validate returned for a height whose header cannot be
\* read, over a storage whose kernel and UTXO reads fail.
C7_Witness ==
    \E i \in Invocations :
        /\ inv[i].target = "mmr_roots" /\ inv[i].pc = "done"
        /\ inv[i].height \in db.missing
        /\ ~db.kernelsOk /\ ~db.utxosOk
        /\ inv[i].res = ROk

\* C8: final_state.validate(height) returns exactly what
\* ChainBalanceValidator.validate(height) returned, Ok or the same error;
\* MmrRootsValidator runs second, and only after ChainBalanceValidator said Ok.
C8_FinalStateEqualsChainBalance ==
    \A i \in Invocations :
        (inv[i].target = "final_state" /\ inv[i].pc = "done") =>
            /\ inv[i].res = inv[i].cb
            /\ inv[i].second_calls = (IF inv[i].cb = ROk THEN 1 ELSE 0)

\* final_state returned the balance mismatch of ChainBalanceValidator.
C8_Witness ==
    \E i \in Invocations :
        /\ inv[i].target = "final_state" /\ inv[i].pc = "done"
        /\ inv[i].compared
        /\ inv[i].cb = RErr(BalanceMismatch(inv[i].height))
        /\ inv[i].res = inv[i].cb

\* The scenario: a genesis block of a coinbase output of value 100 and a
\* non-coinbase output of value 50, height 0, no kernels, a zero kernel
\* offset, every read succeeding, and validate has returned.
Scenario(i) ==
    /\ Returned(i)
    /\ rules.genesis = <<CoinbaseOutput, PlainOutput>>
    /\ inv[i].height = 0
    /\ db.kernels = <<>>
    /\ db.headers[0] = 0
    /\ ReadsSucceed(db, 0)

ScenarioOutcome(i) ==
    /\ db.utxos = <<PlainOutput>> => inv[i].cb = ROk
    /\ db.utxos = <<PlainOutput, CoinbaseOutput>> => inv[i].cb = RErr(BalanceMismatch(0))

\* C10 as stated: in the scenario validate returns Ok when the UTXO set is the
\* 50-value output alone and a balance mismatch when it also holds the
\* coinbase output.
C10_AsStated ==
    \A i \in Invocations : Scenario(i) => ScenarioOutcome(i)

\* C10 (amended): the same, when in addition supply_at_block(0) equals the
\* genesis coinbase value offset, so that the emission commitment at height 0
\* is the identity.
C10_ScenarioWithZeroEmission ==
    \A i \in Invocations :
        (Scenario(i) /\ supply_at_block(rules, 0) = get_genesis_coinbase_value_offset(rules))
            => ScenarioOutcome(i)

\* The scenario with the coinbase output in the UTXO set was rejected.
C10_Witness ==
    \E i \in Invocations :
        /\ Scenario(i)
        /\ supply_at_block(rules, 0) = get_genesis_coinbase_value_offset(rules)
        /\ db.utxos = <<PlainOutput, CoinbaseOutput>>
        /\ inv[i].cb = RErr(BalanceMismatch(0))

\* ------------------------------------------------------------------------
\* Properties of chain() (SpecChain)
\* ------------------------------------------------------------------------
\* C5: chain(A, B).validate(x) runs A first and once; when A fails B is not
\* invoked and the result is A's error; when A succeeds B is invoked exactly
\* once and the result is B's result; so the result is Ok iff both are Ok.
C5_ChainShortCircuits ==
    LET ra == ch.a.results[ch.item]
        rb == ch.b.results[ch.item]
    IN  /\ ch.pc = "first" => ch.calls = [A |-> 0, B |-> 0]
        /\ ch.pc = "second" => ch.calls = [A |-> 1, B |-> 0]
        /\ ch.pc = "done" =>
              /\ ch.calls.A = 1
              /\ ra.tag = "Err" => (ch.calls.B = 0 /\ ch.res = ra)
              /\ ra.tag = "Ok" => (ch.calls.B = 1 /\ ch.res = rb)
              /\ ch.res = ROk <=> (ra = ROk /\ rb = ROk)

\* A failed, B (which would have failed too) was not invoked.
C5_Witness ==
    /\ ch.pc = "done"
    /\ ch.a.results[ch.item].tag = "Err"
    /\ ch.b.results[ch.item].tag = "Err"
    /\ ch.calls = [A |-> 1, B |-> 0]
    /\ ch.res = ch.a.results[ch.item]

\* ------------------------------------------------------------------------
\* Properties of interleaved invocations (SpecConc)
\* ------------------------------------------------------------------------
\* validate(height) run to its end on its own over storage d and rules r.
RECURSIVE RunIsolated(_, _, _, _)
RunIsolated(v, it, d, r) ==
    CASE v.pc = "idle" ->
            RunIsolated([v EXCEPT !.target = "final_state", !.pc = "headers"],
                        HeaderIterNew(v.height, ChunkSize), d, r)
      [] v.pc = "headers" ->
            LET x == HeaderIterNext(it, d)
            IN  RunIsolated(total_offset_step(v, x), x.iter, d, r)
      [] v.pc = "kernels" -> RunIsolated(kernel_step(v, d), it, d, r)
      [] v.pc = "utxos" -> RunIsolated(utxo_step(v, d, r), it, d, r)
      [] v.pc = "chain" -> full_consensus_second(v, d)
      [] OTHER -> v

\* C9: over an unchanging storage, each of two validate invocations on the
\* same validator, however their steps interleave, returns what a single
\* invocation on its own returns; while an invocation sums headers its own
\* HeaderIter has handed out exactly the headers it has counted and has not
\* been put in the error state by the other invocation.
C9_InvocationsIndependent ==
    \A i \in Invocations :
        /\ inv[i].pc = "done" =>
              LET alone == RunIsolated(NewInvocation("none", inv[i].height),
                                       HeaderIterNew(0, ChunkSize), db, rules)
              IN  inv[i].cb = alone.cb /\ inv[i].res = alone.res
        /\ inv[i].pc = "headers" =>
              /\ hiter[i].height = inv[i].height
              /\ hiter[i].cursor - Len(hiter[i].chunk) = inv[i].count
              /\ ~hiter[i].is_error

\* Both invocations have returned: the one at the higher height with the
\* error of its second header chunk, the other one, whose heights are all
\* readable, with Ok.
C9_Witness ==
    \E i, j \in Invocations :
        /\ inv[i].pc = "done" /\ inv[j].pc = "done"
        /\ inv[i].height = ChunkSize + 1 /\ inv[j].height = 1
        /\ inv[i].cb.tag = "Err" /\ ~inv[i].compared
        /\ Len(inv[i].reads) = 2
        /\ inv[j].cb = ROk

\* ------------------------------------------------------------------------
\* Further properties of ChainBalanceValidator (Spec)
\* ------------------------------------------------------------------------
\* C11: when all reads succeed and the balance equation does not hold,
\* validate(height) returns the balance-mismatch error carrying exactly the
\* height it was called with; when a read failed, the error returned is that
\* read's error and differs from every balance-mismatch error.
C11_MismatchCarriesHeight ==
    \A i \in Invocations :
        Returned(i) =>
            /\ (ReadsSucceed(db, inv[i].height)
                  /\ ~BalanceEquation(db, rules, inv[i].height)) =>
                  /\ inv[i].cb = RErr(BalanceMismatch(inv[i].height))
                  /\ inv[i].cb.err.msg[2] = inv[i].height
            /\ ~ReadsSucceed(db, inv[i].height) =>
                  /\ inv[i].cb.tag = "Err"
                  /\ \A h \in Heights : inv[i].cb.err # BalanceMismatch(h)
                  /\ inv[i].cb.err.msg[1] \in
                        {"fetch_headers", "fetch_all_kernels", "fetch_all_utxos"}

\* validate(MaxHeight) found the state unbalanced and reported MaxHeight.
C11_Witness ==
    \E i \in Invocations :
        /\ Returned(i)
        /\ inv[i].height = MaxHeight
        /\ ReadsSucceed(db, MaxHeight)
        /\ ~BalanceEquation(db, rules, MaxHeight)
        /\ inv[i].cb = RErr(BalanceMismatch(MaxHeight))

\* ------------------------------------------------------------------------
\* Further properties of HeaderIter (SpecIter)
\* ------------------------------------------------------------------------
\* C12: every fetch_headers request of a HeaderIter with chunk_size >= 1 asks
\* for at most chunk_size heights, and its buffer never holds more than
\* chunk_size headers.
C12_ChunkAtMostChunkSize ==
    \A j \in IterIds :
        iters[j].chunk_size >= 1 =>
            /\ \A k \in 1..Len(fetches[j]) : Len(fetches[j][k]) <= iters[j].chunk_size
            /\ Len(iters[j].chunk) <= iters[j].chunk_size

\* ------------------------------------------------------------------------
\* Properties of check_utxo_mr (SpecMmr)
\* ------------------------------------------------------------------------
\* C13: check_utxo_mr(header) takes the fetched UTXO MMR nodes whose spent
\* flag is false as additions and those whose flag is true as deletions; when
\* fetch_mmr_node_count, fetch_mmr_nodes and calculate_mmr_root succeed it
\* returns InvalidOutputMr exactly when the root over these differs from
\* header.output_mr, and Ok otherwise; when one of the three fails it returns
\* that failure, makes no later storage call and compares nothing.
C13_CheckUtxoMr ==
    mmr.pc = "done" =>
        LET m == mmr.store
            out == mmr.out
            ns == SubSeq(m.nodes, 1, m.count)
            adds == Hashes(SelectSeq(ns, LAMBDA n : n.is_stxo = FALSE))
            dels == Hashes(SelectSeq(ns, LAMBDA n : n.is_stxo = TRUE))
        IN  /\ m.fail = "none" =>
                  /\ out.compared
                  /\ out.res = RErr(InvalidOutputMr) <=> mmr.header.output_mr # <<adds, dels>>
                  /\ out.res = ROk <=> mmr.header.output_mr = <<adds, dels>>
            /\ m.fail # "none" =>
                  /\ ~out.compared
                  /\ out.res = RErr([variant |-> "CustomError",
                                     msg |-> <<m.fail, 0>>])
                  /\ out.calls[Len(out.calls)] = m.fail
                  /\ \A a \in 1..(Len(out.calls) - 1) : out.calls[a] # m.fail

\* A header whose output_mr is the root with additions and deletions
\* exchanged, over a spent and an unspent node, was rejected.
C13_Witness ==
    /\ mmr.pc = "done"
    /\ mmr.store.fail = "none"
    /\ mmr.store.count = 2
    /\ mmr.store.nodes[1].is_stxo /\ ~mmr.store.nodes[2].is_stxo
    /\ mmr.out.res = RErr(InvalidOutputMr)

\* ------------------------------------------------------------------------
\* Properties of validate under concurrent writes (SpecWrite)
\* ------------------------------------------------------------------------
\* ChainBalanceValidator.validate(height) run alone over storage d.
ResultOn(d, height) ==
    RunIsolated(NewInvocation("none", height), HeaderIterNew(0, ChunkSize), d, rules).cb

\* C14: when another process has written to the storage between two reads of
\* a validate invocation, the result validate returns is the result on the
\* storage before the write or the result on the storage after the write;
\* without a write it is the result on the storage.
C14_OneSnapshot ==
    \A i \in Invocations :
        Returned(i) =>
            IF before.written
            THEN \/ inv[i].cb = ResultOn(before.db, inv[i].height)
                 \/ inv[i].cb = ResultOn(db, inv[i].height)
            ELSE inv[i].cb = ResultOn(db, inv[i].height)

\* ------------------------------------------------------------------------
\* Further properties of HeaderIter (SpecIter)
\* ------------------------------------------------------------------------
\* The fetch_headers call issued by the step, when iterator j issued one.
FetchIssued(j) == fetches'[j][Len(fetches'[j])]

\* C15: HeaderIter issues a fetch_headers call only in a next() call that
\* finds the buffer empty while heights <= height remain unfetched, at most one
\* per call; the list of heights it asks for is never empty and holds no height
\* above the target height.
C15_FetchOnlyOnEmptyBuffer ==
    [][\A j \in IterIds :
          fetches'[j] # fetches[j] =>
              /\ iters[j].chunk = <<>>
              /\ iters[j].cursor <= iters[j].height
              /\ fetches'[j] = Append(fetches[j], FetchIssued(j))
              /\ FetchIssued(j) # <<>>
              /\ \A k \in 1..Len(FetchIssued(j)) : FetchIssued(j)[k] <= iters[j].height]_vars

\* An iterator that refilled its buffer a second time, with headers buffered.
C15_Witness ==
    \E j \in IterIds :
        /\ Len(fetches[j]) >= 2
        /\ iters[j].chunk # <<>>
        /\ ~iters[j].is_error

\* C16: with a backend that returns the requested headers, for every height
\* and every chunk_size >= 0, each successful fetch strictly increases cursor,
\* and repeated calls of next() eventually return None.
C16_EventuallyNone ==
    /\ [][\A j \in IterIds :
             (fetches'[j] # fetches[j] /\ ~iters'[j].is_error) =>
                 iters'[j].cursor > iters[j].cursor]_vars
    /\ \A j \in IterIds :
          ErrorFree(db, iters[j].height) ~> (nones[j] >= 1)

\* The iterator with chunk_size = 0 over the largest height has returned None
\* after yielding every header.
C16_Witness ==
    \E j \in IterIds :
        /\ iters[j].chunk_size = 0
        /\ iters[j].height = MaxIterHeight
        /\ ErrorFree(db, iters[j].height)
        /\ Len(yielded[j]) = MaxIterHeight + 1
        /\ nones[j] >= 1

\* C17: next() never takes an element from an empty buffer, for every
\* successful fetch_headers response, including a response with fewer headers
\* than were requested or none at all.
C17_NeverTakesFromEmpty ==
    \A j \in IterIds : ~Panicked(j)

\* Iterator j has returned None after yielding every header of heights
\* 0..=height without error.
Exhausted(j) ==
    /\ nones[j] >= 1
    /\ ~iters[j].is_error
    /\ yielded[j] = HeadersUpTo(db, iters[j].height)

\* C18: once next() has returned None after yielding all headers 0..=height
\* without error, a later call of next() returns None again, issues no
\* fetch_headers call and leaves cursor, buffer and is_error as they were.
C18_NoneIsFinal ==
    [][\A j \in IterIds :
          Exhausted(j) =>
              /\ nones'[j] \in {nones[j], nones[j] + 1}
              /\ yielded'[j] = yielded[j]
              /\ fetches'[j] = fetches[j]
              /\ iters'[j] = iters[j]]_vars

\* next() was called MaxNoneCalls times after the last header of a pass over
\* several chunks.
C18_Witness ==
    \E j \in IterIds :
        /\ Exhausted(j)
        /\ nones[j] = MaxNoneCalls
        /\ Len(fetches[j]) >= 2

\* The number of headers asked for by the fetch_headers calls of iterator j.
FetchedCount(j) == Len(Flatten(fetches[j]))

\* C19: with a backend that returns exactly the requested headers, in every
\* reachable state of a HeaderIter cursor is the number of headers fetched so
\* far, cursor <= height + 1, the buffer holds the headers of the consecutive
\* heights [cursor - len(buffer), cursor), and the number of items yielded
\* plus len(buffer) is cursor.
C19_CursorAccounting ==
    \A j \in IterIds :
        ErrorFree(db, iters[j].height) =>
            LET it == iters[j]
                n == Len(it.chunk)
            IN  /\ it.cursor = FetchedCount(j)
                /\ it.cursor <= it.height + 1
                /\ n <= it.cursor
                /\ it.chunk = [k \in 1..n |-> BlockHeader(db, it.cursor - n + k - 1)]
                /\ Len(yielded[j]) + n = it.cursor

\* In its last chunk, after an earlier one, with a header still buffered and
\* headers already yielded.
C19_Witness ==
    \E j \in IterIds :
        /\ ErrorFree(db, iters[j].height)
        /\ Len(fetches[j]) >= 2
        /\ Len(iters[j].chunk) >= 1
        /\ iters[j].cursor = iters[j].height + 1
        /\ Len(yielded[j]) >= 1

====
